---- MODULE Spec2Model ----
(***************************************************************************)
(* ainp_sdk: canonical JSON of an envelope, Ed25519 signing/verification   *)
(* over it, and did:key derivation from a raw public key.                 *)
(*                                                                         *)
(* Text is a sequence of one-character strings, bytes are sequences of    *)
(* naturals below 256, and a call that can raise returns a record         *)
(* [exc, s]: exc = "none" and the value in s, or the exception's name.    *)
(***************************************************************************)
EXTENDS Integers, Sequences, FiniteSets, TLC

VARIABLES envA, envB, outA, outB,
          env, signing, verdict,
          pkA, pkB, didA, didB, data, enc

vars == <<envA, envB, outA, outB, env, signing, verdict,
          pkA, pkB, didA, didB, data, enc>>

----------------------------------------------------------------------------
\* Text

\* The printable ASCII characters, code points 32..126 (the grave accent,
\* code point 96, is not used and its place is held by a second "?").
Ascii == <<" ", "!", "\"", "#", "$", "%", "&", "'", "(", ")", "*", "+", ",", "-", ".", "/", "0", "1", "2", "3", "4", "5", "6", "7", "8", "9", ":", ";", "<", "=", ">", "?", "@", "A", "B", "C", "D", "E", "F", "G", "H", "I", "J", "K", "L", "M", "N", "O", "P", "Q", "R", "S", "T", "U", "V", "W", "X", "Y", "Z", "[", "\\", "]", "^", "_", "?", "a", "b", "c", "d", "e", "f", "g", "h", "i", "j", "k", "l", "m", "n", "o", "p", "q", "r", "s", "t", "u", "v", "w", "x", "y", "z", "{", "|", "}", "~">>

\* A character outside ASCII, as a caller may put into a signature string.
NonAscii == "\\u00e9"

AsciiChars == {Ascii[i] : i \in 1..Len(Ascii)}

\* ord(c) of an ASCII character.
Ord == [c \in AsciiChars |-> 31 + (CHOOSE i \in 1..Len(Ascii) : Ascii[i] = c /\ i # 65)]

Raised(e) == [exc |-> e, s |-> <<>>]
Returned(v) == [exc |-> "none", s |-> v]
NotRun == [exc |-> "notrun", s |-> <<>>]

----------------------------------------------------------------------------
\* Python values: a record of one field, named by the type. A dict is the
\* sequence of its (key, value) items in insertion order, its keys pairwise
\* distinct.

IntV(n) == [int |-> n]
StrV(s) == [str |-> s]
BoolV(b) == [bool |-> b]
NoneV == [none |-> 0]
BytesV(bs) == [bytes |-> bs]
ListV(xs) == [list |-> xs]
TupleV(xs) == [tuple |-> xs]
DictV(items) == [dict |-> items]

\* type(o) and the value it wraps
Type(o) == CHOOSE t \in DOMAIN o : TRUE
Val(o) == o[Type(o)]

Keys(items) == {items[i][1] : i \in 1..Len(items)}
Get(items, k) == items[CHOOSE i \in 1..Len(items) : items[i][1] = k][2]

\* The == of Python on the values above (dicts compare as mappings, sequences by
\* type and position; an int never equals a str).
RECURSIVE PyEq(_, _)
PyEq(a, b) ==
    /\ Type(a) = Type(b)
    /\ CASE Type(a) = "dict" ->
              /\ Keys(Val(a)) = Keys(Val(b))
              /\ \A k \in Keys(Val(a)) : PyEq(Get(Val(a), k), Get(Val(b), k))
         [] Type(a) \in {"list", "tuple"} ->
              /\ Len(Val(a)) = Len(Val(b))
              /\ \A i \in 1..Len(Val(a)) : PyEq(Val(a)[i], Val(b)[i])
         [] OTHER -> Val(a) = Val(b)

----------------------------------------------------------------------------
\* json.dumps(d, separators=(',', ':'), sort_keys=True)

DecimalDigits == <<"0", "1", "2", "3", "4", "5", "6", "7", "8", "9">>

RECURSIVE IntDigits(_)
IntDigits(n) ==
    IF n < 10 THEN <<DecimalDigits[n + 1]>>
    ELSE IntDigits(n \div 10) \o <<DecimalDigits[(n % 10) + 1]>>

\* int.__repr__
IntRepr(n) == IF n < 0 THEN <<"-">> \o IntDigits(-n) ELSE IntDigits(n)

RECURSIVE EscapeChars(_)
EscapeChars(s) ==
    IF s = <<>> THEN <<>>
    ELSE (IF Head(s) \in {"\"", "\\"} THEN <<"\\", Head(s)>> ELSE <<Head(s)>>)
         \o EscapeChars(Tail(s))

\* json.encoder.encode_basestring_ascii on printable ASCII text
EncodeString(s) == <<"\"">> \o EscapeChars(s) \o <<"\"">>

RECURSIVE TextLess(_, _)
\* str.__lt__: lexicographic by code point
TextLess(a, b) ==
    IF b = <<>> THEN FALSE
    ELSE IF a = <<>> THEN TRUE
    ELSE IF Head(a) = Head(b) THEN TextLess(Tail(a), Tail(b))
    ELSE Ord[Head(a)] < Ord[Head(b)]

\* key1 < key2 for two keys of one type
KeyLess(k1, k2) == IF Type(k1) = "str" THEN TextLess(Val(k1), Val(k2)) ELSE Val(k1) < Val(k2)

RECURSIVE Insert(_, _)
Insert(item, sorted) ==
    IF sorted = <<>> THEN <<item>>
    ELSE IF KeyLess(item[1], Head(sorted)[1]) THEN <<item>> \o sorted
    ELSE <<Head(sorted)>> \o Insert(item, Tail(sorted))

\* sort_keys left out: the items stay in insertion order
SortItems_unsorted(items) == items

RECURSIVE SortItems(_)
\* sorted(dct.items()) when the keys are comparable
SortItems(items) ==
    IF items = <<>> THEN <<>> ELSE Insert(Head(items), SortItems(Tail(items)))

\* the coercion by the encoder of a dict key to text
KeyText(k) ==
    CASE Type(k) = "str" -> Val(k)
      [] Type(k) = "int" -> IntRepr(Val(k))
      [] Type(k) = "bool" -> IF Val(k) THEN <<"t", "r", "u", "e">> ELSE <<"f", "a", "l", "s", "e">>
      [] Type(k) = "none" -> <<"n", "u", "l", "l">>

RECURSIVE Dumps(_), DumpsList(_), DumpsItems(_)
Dumps(o) ==
    CASE Type(o) = "str" -> Returned(EncodeString(Val(o)))
      [] Type(o) = "none" -> Returned(<<"n", "u", "l", "l">>)
      [] Type(o) = "bool" -> Returned(IF Val(o) THEN <<"t", "r", "u", "e">> ELSE <<"f", "a", "l", "s", "e">>)
      [] Type(o) = "int" -> Returned(IntRepr(Val(o)))
      [] Type(o) \in {"list", "tuple"} ->
            LET r == DumpsList(Val(o))
            IN  IF r.exc = "none" THEN Returned(<<"[">> \o r.s \o <<"]">>) ELSE r
      [] Type(o) = "dict" ->
            IF Cardinality({Type(k) : k \in Keys(Val(o))}) > 1
            THEN Raised("TypeError")   \* '<' between keys of two types
            ELSE LET r == DumpsItems(SortItems(Val(o)))
                 IN  IF r.exc = "none" THEN Returned(<<"{">> \o r.s \o <<"}">>) ELSE r
      [] OTHER -> Raised("TypeError")  \* not JSON serializable

DumpsList(xs) ==
    IF xs = <<>> THEN Returned(<<>>)
    ELSE LET h == Dumps(Head(xs))
             r == DumpsList(Tail(xs))
         IN  IF h.exc # "none" THEN h
             ELSE IF r.exc # "none" THEN r
             ELSE Returned(h.s \o (IF Tail(xs) = <<>> THEN <<>> ELSE <<",">>) \o r.s)

DumpsItems(items) ==
    IF items = <<>> THEN Returned(<<>>)
    ELSE LET k == EncodeString(KeyText(Head(items)[1]))
             h == Dumps(Head(items)[2])
             r == DumpsItems(Tail(items))
         IN  IF h.exc # "none" THEN h
             ELSE IF r.exc # "none" THEN r
             ELSE Returned(k \o <<":">> \o h.s
                           \o (IF Tail(items) = <<>> THEN <<>> ELSE <<",">>) \o r.s)

----------------------------------------------------------------------------
\* envelope.py. An envelope is its __dict__, the items of its nine fields.

SigKey == StrV(<<"s", "i", "g">>)

\* d.pop(key, None)
Pop(items, k) == SelectSeq(items, LAMBDA it : it[1] # k)

\* the 'sig' item left in
canonicalize_envelope_with_sig(e) == Dumps(DictV(e))

canonicalize_envelope(e) == Dumps(DictV(Pop(e, SigKey)))

----------------------------------------------------------------------------
\* did.py. An int is the sequence of its base-256 digits, most significant
\* first and without leading zeros (0 is the empty sequence).

ED25519_MULTICODEC_PREFIX == <<237, 1>>

BASE58_ALPHABET == <<"1", "2", "3", "4", "5", "6", "7", "8", "9", "A", "B", "C", "D", "E", "F", "G", "H", "J", "K", "L", "M", "N", "P", "Q", "R", "S", "T", "U", "V", "W", "X", "Y", "Z", "a", "b", "c", "d", "e", "f", "g", "h", "i", "j", "k", "m", "n", "o", "p", "q", "r", "s", "t", "u", "v", "w", "x", "y", "z">>

KeyLen == 32
Radix == 58

RECURSIVE LStripZeros(_)
\* data.lstrip(b'\x00')
LStripZeros(bs) ==
    IF bs # <<>> /\ Head(bs) = 0 THEN LStripZeros(Tail(bs)) ELSE bs

\* int.from_bytes(data, 'big')
FromBytes(bs) == LStripZeros(bs)

RECURSIVE LongDiv(_, _, _, _)
\* the digits from position i on divided by Radix, r the remainder carried in
LongDiv(num, i, r, q) ==
    IF r >= Radix \/ i > Len(num) THEN [q |-> LStripZeros(q), r |-> r]
    ELSE LET cur == r * 256 + num[i]
         IN  LongDiv(num, i + 1, cur % Radix, Append(q, cur \div Radix))

\* divmod(num, 58)
DivMod(num) == LongDiv(num, 1, 0, <<>>)

RECURSIVE EncodeDigits(_, _)
\* while num > 0: num, rem = divmod(num, 58); enc.append(_BASE58_ALPHABET[rem])
EncodeDigits(num, out) ==
    IF num = <<>> THEN out
    ELSE LET dm == DivMod(num)
         IN  EncodeDigits(dm.q, Append(out, BASE58_ALPHABET[dm.r + 1]))

Reverse(s) == [i \in 1..Len(s) |-> s[Len(s) + 1 - i]]

\* no '1' appended for the leading zero bytes
encode_base58btc_without_zeros(bs) ==
    <<"z">> \o Reverse(EncodeDigits(FromBytes(bs), <<>>))

_encode_base58btc(bs) ==
    LET zeros == Len(bs) - Len(LStripZeros(bs))
        digits == EncodeDigits(FromBytes(bs), <<>>)
    IN  <<"z">> \o Reverse(digits \o [i \in 1..zeros |-> "1"])

\* the length check left out
did_from_public_key_unchecked(public_key) ==
    Returned(<<"d", "i", "d", ":", "k", "e", "y", ":">>
             \o _encode_base58btc(ED25519_MULTICODEC_PREFIX \o public_key))

\* the last byte of the key left out of the encoded buffer
did_from_public_key_short(public_key) ==
    IF Len(public_key) # KeyLen THEN Raised("ValueError")
    ELSE Returned(<<"d", "i", "d", ":", "k", "e", "y", ":">>
                  \o _encode_base58btc(ED25519_MULTICODEC_PREFIX
                                       \o SubSeq(public_key, 1, KeyLen - 1)))

did_from_public_key(public_key) ==
    IF Len(public_key) # KeyLen THEN Raised("ValueError")
    ELSE Returned(<<"d", "i", "d", ":", "k", "e", "y", ":">>
                  \o _encode_base58btc(ED25519_MULTICODEC_PREFIX \o public_key))

----------------------------------------------------------------------------
\* types.py: AINPEnvelope. The dataclass __init__ sets the fields in the
\* declared order.

FieldNames == <<
    StrV(<<"i", "d">>),
    StrV(<<"t", "r", "a", "c", "e", "_", "i", "d">>),
    StrV(<<"f", "r", "o", "m", "_", "d", "i", "d">>),
    StrV(<<"t", "o", "_", "d", "i", "d">>),
    StrV(<<"m", "s", "g", "_", "t", "y", "p", "e">>),
    StrV(<<"t", "t", "l">>),
    StrV(<<"t", "i", "m", "e", "s", "t", "a", "m", "p">>),
    SigKey,
    StrV(<<"p", "a", "y", "l", "o", "a", "d">>) >>

ToDidKey == FieldNames[4]
TtlKey == FieldNames[6]
PayloadKey == FieldNames[9]

\* AINPEnvelope(id, trace_id, from_did, to_did, msg_type, ttl, timestamp, sig, payload)
AINPEnvelope(values) == [i \in 1..Len(FieldNames) |-> <<FieldNames[i], values[i]>>]

\* setattr(env, k, v) on an existing field: the key keeps its place
SetAttr(e, k, v) == [i \in 1..Len(e) |-> IF e[i][1] = k THEN <<k, v>> ELSE e[i]]

\* The same object with its fields set in the opposite order (each field
\* deleted and set again, last to first).
Reinserted(e) == [i \in 1..Len(e) |-> e[Len(e) + 1 - i]]

\* Two envelopes agree on a field / on every field but sig.
SameField(e1, e2, k) == PyEq(Get(e1, k), Get(e2, k))
SameButSig(e1, e2) ==
    \A i \in 1..Len(FieldNames) :
        FieldNames[i] # SigKey => SameField(e1, e2, FieldNames[i])

----------------------------------------------------------------------------
\* base64 (the standard library): b64encode, and b64decode with validate=False

B64_ALPHABET == <<"A", "B", "C", "D", "E", "F", "G", "H", "I", "J", "K", "L", "M", "N", "O", "P", "Q", "R", "S", "T", "U", "V", "W", "X", "Y", "Z", "a", "b", "c", "d", "e", "f", "g", "h", "i", "j", "k", "l", "m", "n", "o", "p", "q", "r", "s", "t", "u", "v", "w", "x", "y", "z", "0", "1", "2", "3", "4", "5", "6", "7", "8", "9", "+", "/">>

B64Chars == {B64_ALPHABET[i] : i \in 1..Len(B64_ALPHABET)}

\* table_a2b_base64
B64Value == [c \in B64Chars |-> (CHOOSE i \in 1..Len(B64_ALPHABET) : B64_ALPHABET[i] = c) - 1]

\* the j-th character (1..4) of the group that encodes bytes 3g+1..3g+3 of bs
B64Char(bs, g, j) ==
    LET n == Len(bs)
        b1 == bs[3 * g + 1]
        b2 == IF 3 * g + 2 <= n THEN bs[3 * g + 2] ELSE 0
        b3 == IF 3 * g + 3 <= n THEN bs[3 * g + 3] ELSE 0
    IN  CASE j = 1 -> B64_ALPHABET[(b1 \div 4) + 1]
          [] j = 2 -> B64_ALPHABET[(b1 % 4) * 16 + (b2 \div 16) + 1]
          [] j = 3 -> IF 3 * g + 2 > n THEN "="
                      ELSE B64_ALPHABET[(b2 % 16) * 4 + (b3 \div 64) + 1]
          [] j = 4 -> IF 3 * g + 3 > n THEN "=" ELSE B64_ALPHABET[(b3 % 64) + 1]

\* the padding left off
b64encode_unpadded(bs) ==
    SelectSeq([i \in 1..(4 * ((Len(bs) + 2) \div 3)) |->
                  B64Char(bs, (i - 1) \div 4, ((i - 1) % 4) + 1)],
              LAMBDA c : c # "=")

b64encode(bs) ==
    [i \in 1..(4 * ((Len(bs) + 2) \div 3)) |->
        B64Char(bs, (i - 1) \div 4, ((i - 1) % 4) + 1)]

\* binascii.a2b_base64, one character: quad is the position in the current
\* group of four, left the bits carried over, pads the '=' seen in a row.
A2bStep(st, c) ==
    CASE st.done -> st
      [] c = "=" ->
            IF st.quad >= 2
            THEN IF st.quad + st.pads + 1 >= 4
                 THEN [st EXCEPT !.pads = @ + 1, !.done = TRUE]
                 ELSE [st EXCEPT !.pads = @ + 1]
            ELSE st
      [] c \notin B64Chars -> st        \* discarded
      [] st.quad = 0 -> [st EXCEPT !.pads = 0, !.quad = 1, !.left = B64Value[c]]
      [] st.quad = 1 -> [st EXCEPT !.pads = 0, !.quad = 2,
                                   !.out = Append(@, st.left * 4 + (B64Value[c] \div 16)),
                                   !.left = B64Value[c] % 16]
      [] st.quad = 2 -> [st EXCEPT !.pads = 0, !.quad = 3,
                                   !.out = Append(@, st.left * 16 + (B64Value[c] \div 4)),
                                   !.left = B64Value[c] % 4]
      [] st.quad = 3 -> [st EXCEPT !.pads = 0, !.quad = 0,
                                   !.out = Append(@, st.left * 64 + B64Value[c]),
                                   !.left = 0]

RECURSIVE A2bRange(_, _, _, _)
\* the characters s[lo..hi], left to right
A2bRange(st, s, lo, hi) ==
    IF st.done \/ lo > hi THEN st
    ELSE IF lo = hi THEN A2bStep(st, s[lo])
    ELSE LET mid == (lo + hi) \div 2
         IN  A2bRange(A2bRange(st, s, lo, mid), s, mid + 1, hi)

\* base64.b64decode(s) of a str: the bytes, or binascii.Error / ValueError
b64decode(s) ==
    IF \E i \in 1..Len(s) : s[i] = NonAscii THEN Raised("ValueError")
    ELSE LET st == A2bRange([quad |-> 0, left |-> 0, pads |-> 0, out |-> <<>>, done |-> FALSE],
                            s, 1, Len(s))
         IN  IF ~st.done /\ st.quad # 0 THEN Raised("binascii.Error") ELSE Returned(st.out)

----------------------------------------------------------------------------
\* Ed25519 (nacl.signing), as an ideal signature scheme: a signature is a
\* fixed function of the seed and of a digest of the message, and it verifies
\* under a public key exactly when that key belongs to the seed that made it.

SeedLen == 32
SignatureLen == 64
NumKeys == 2

\* generate_keypair: the seeds the program draws, and their public keys
Seeds == {[i \in 1..SeedLen |-> n] : n \in 1..NumKeys}
PublicKeyOf(seed) == [i \in 1..KeyLen |-> (seed[i] * 7 + 3) % 256]
generate_keypair == {<<seed, PublicKeyOf(seed)>> : seed \in Seeds}

\* str.encode('utf-8') of ASCII text
Utf8(s) == [i \in 1..Len(s) |-> Ord[s[i]]]

HashStep(h, c) == <<(h[1] * 31 + c) % 32749, (h[2] * 37 + c + 1) % 32719>>

RECURSIVE HashRange(_, _, _, _)
HashRange(h, m, lo, hi) ==
    IF h[1] < 0 \/ lo > hi THEN h
    ELSE IF lo = hi THEN HashStep(h, m[lo])
    ELSE LET mid == (lo + hi) \div 2
         IN  HashRange(HashRange(h, m, lo, mid), m, mid + 1, hi)

\* the message digest inside the signature, four bytes
Digest(m) ==
    LET h == HashRange(<<7, 11>>, m, 1, Len(m))
    IN  <<h[1] \div 256, h[1] % 256, h[2] \div 256, h[2] % 256>>

\* SigningKey(seed).sign(msg).signature
Ed25519Sign(seed, m) ==
    LET d == Digest(m)
        pk == PublicKeyOf(seed)
    IN  [i \in 1..SignatureLen |->
            IF i <= KeyLen THEN (pk[i] + d[((i - 1) % 4) + 1]) % 256 ELSE d[((i - 1) % 4) + 1]]

\* VerifyKey(public_key).verify(msg, sig): the exception it raises, or "none"
Ed25519Verify(public_key, m, sig) ==
    IF Len(sig) # SignatureLen THEN "ValueError"
    ELSE IF \E seed \in Seeds : PublicKeyOf(seed) = public_key /\ sig = Ed25519Sign(seed, m)
    THEN "none"
    ELSE "BadSignatureError"

----------------------------------------------------------------------------
\* crypto.py

sign_envelope(e, private_key) ==
    IF Len(private_key) # SeedLen THEN Raised("ValueError")      \* SigningKey(private_key)
    ELSE LET msg == canonicalize_envelope(e)
         IN  IF msg.exc # "none" THEN msg
             ELSE Returned(b64encode(Ed25519Sign(private_key, Utf8(msg.s))))

\* the exception classes an except clause for `class` catches
IsInstance(exc, class) == exc = class \/ (exc = "binascii.Error" /\ class = "ValueError")

\* the body of the try block: the exception raised, or "none"
VerifyBody(e, signature, public_key) ==
    IF Len(public_key) # KeyLen THEN "ValueError"                \* VerifyKey(public_key)
    ELSE LET msg == canonicalize_envelope(e)
             sig == b64decode(signature)
         IN  IF msg.exc # "none" THEN msg.exc
             ELSE IF sig.exc # "none" THEN sig.exc
             ELSE Ed25519Verify(public_key, Utf8(msg.s), sig.s)

\* vk.verify left out: any signature that decodes is accepted
verify_envelope_signature_unverified(e, signature, public_key) ==
    LET raised == IF Len(public_key) # KeyLen THEN "ValueError"
                  ELSE IF canonicalize_envelope(e).exc # "none" THEN "TypeError"
                  ELSE b64decode(signature).exc
    IN  [exc |-> "none", ret |-> raised = "none"]

\* the result: ret is the boolean returned, exc an exception that escapes
verify_envelope_signature(e, signature, public_key) ==
    LET raised == VerifyBody(e, signature, public_key)
    IN  IF raised = "none" THEN [exc |-> "none", ret |-> TRUE]
        ELSE IF \E class \in {"BadSignatureError", "ValueError", "TypeError"} :
                    IsInstance(raised, class)
        THEN [exc |-> "none", ret |-> FALSE]
        ELSE [exc |-> raised, ret |-> FALSE]

----------------------------------------------------------------------------
\* Inputs

keyA == StrV(<<"a">>)
keyB == StrV(<<"b">>)
keyX == StrV(<<"x">>)
keyY == StrV(<<"y">>)
one == IntV(1)
oneText == StrV(<<"1">>)

\* payload: Dict[str, Any]
CanonPayloads == {
    DictV(<<>>),
    DictV(<< <<keyA, one>> >>),
    DictV(<< <<keyA, oneText>> >>),
    DictV(<< <<keyA, one>>, <<keyB, ListV(<<one, oneText>>)>> >>),
    DictV(<< <<keyB, ListV(<<one, oneText>>)>>, <<keyA, one>> >>),
    DictV(<< <<keyA, one>>, <<keyB, ListV(<<oneText, one>>)>> >>),
    DictV(<< <<keyA, one>>, <<keyB, TupleV(<<one, oneText>>)>> >>),
    DictV(<< <<keyA, DictV(<< <<one, IntV(0)>> >>)>> >>),
    DictV(<< <<keyA, DictV(<< <<oneText, IntV(0)>> >>)>> >>),
    DictV(<< <<keyA, DictV(<< <<one, IntV(0)>>, <<oneText, IntV(0)>> >>)>> >>),
    DictV(<< <<keyA, BytesV(<<120>>)>> >>),
    DictV(<< <<keyA, DictV(<< <<keyY, IntV(-1)>>, <<keyX, IntV(10)>> >>)>> >>),
    DictV(<< <<keyA, DictV(<< <<keyX, IntV(10)>>, <<keyY, IntV(-1)>> >>)>> >>),
    DictV(<< <<keyA, DictV(<< <<IntV(10), one>>, <<IntV(9), one>> >>)>> >>),
    DictV(<< <<keyA, DictV(<< <<IntV(9), one>>, <<IntV(10), one>> >>)>> >>),
    DictV(<< <<SigKey, StrV(<<"\\">>)>> >>),
    DictV(<< <<keyA, oneText>>, <<keyB, oneText>> >>),
    DictV(<< <<keyA, StrV(<<"1", "\"", ",", "\"", "b", "\"", ":", "\"", "1">>)>> >>) }

IdText == StrV(<<"m", "1">>)
TraceText == StrV(<<"t", "1">>)
FromDid == StrV(<<"d", "i", "d", ":", "k", "e", "y", ":", "z", "A">>)
ToDids == {NoneV, StrV(<<"n", "u", "l", "l">>)}
MsgType == StrV(<<"I", "N", "T", "E", "N", "T">>)
Timestamp == IntV(1700)
SigTexts == {StrV(<<>>), StrV(<<"A", "A", "=", "=">>)}

Built(to, ttl, sig, payload) ==
    AINPEnvelope(<<IdText, TraceText, FromDid, to, MsgType, IntV(ttl), Timestamp, sig, payload>>)

CanonEnvelopes ==
    LET built == {Built(to, 1, sig, p) : to \in ToDids, sig \in SigTexts, p \in CanonPayloads}
    IN  built \cup {Reinserted(e) : e \in built}

----------------------------------------------------------------------------
\* Canonicalization of two envelopes

InitCanon ==
    /\ envA \in CanonEnvelopes
    /\ envB \in CanonEnvelopes
    /\ outA = NotRun /\ outB = NotRun
    /\ env = <<>> /\ signing = NotRun /\ verdict = NotRun
    /\ pkA = <<>> /\ pkB = <<>> /\ didA = NotRun /\ didB = NotRun
    /\ data = <<>> /\ enc = NotRun

CanonicalizeA ==
    /\ outA' = canonicalize_envelope(envA)
    /\ UNCHANGED <<envA, envB, outB, env, signing, verdict, pkA, pkB, didA, didB, data, enc>>

CanonicalizeB ==
    /\ outB' = canonicalize_envelope(envB)
    /\ UNCHANGED <<envA, envB, outA, env, signing, verdict, pkA, pkB, didA, didB, data, enc>>

NextCanon == CanonicalizeA \/ CanonicalizeB

SpecCanon == InitCanon /\ [][NextCanon]_vars

----------------------------------------------------------------------------
\* Reading a canonical text back: the keys of the objects at nesting depth
\* `want`, in the order they are written (escapes are kept as written).

\* One character of the scan. mode is "out" (between tokens), "str" (inside
\* a string) or "esc" (after a backslash inside a string); cur is the last
\* string read.
ScanStep(st, c) ==
    CASE st.mode = "esc" -> [st EXCEPT !.mode = "str", !.cur = Append(@, c)]
      [] st.mode = "str" /\ c = "\\" -> [st EXCEPT !.mode = "esc", !.cur = Append(@, c)]
      [] st.mode = "str" /\ c = "\"" -> [st EXCEPT !.mode = "out"]
      [] st.mode = "str" -> [st EXCEPT !.cur = Append(@, c)]
      [] c = "\"" -> [st EXCEPT !.mode = "str", !.cur = <<>>]
      [] c \in {"{", "["} -> [st EXCEPT !.depth = @ + 1]
      [] c \in {"}", "]"} -> [st EXCEPT !.depth = @ - 1]
      [] c = ":" /\ st.depth = st.want -> [st EXCEPT !.acc = Append(@, st.cur)]
      [] OTHER -> st

RECURSIVE ScanRange(_, _, _, _)
\* the scan of s[lo..hi], left to right (it stops where the text closes more
\* brackets than it opened)
ScanRange(st, s, lo, hi) ==
    IF st.depth < 0 \/ lo > hi THEN st
    ELSE IF lo = hi THEN ScanStep(st, s[lo])
    ELSE LET mid == (lo + hi) \div 2
         IN  ScanRange(ScanRange(st, s, lo, mid), s, mid + 1, hi)

KeysAtDepth(s, want) ==
    ScanRange([depth |-> 0, mode |-> "out", cur |-> <<>>, acc |-> <<>>, want |-> want],
              s, 1, Len(s)).acc

StrictlySorted(ks) == \A i \in 1..(Len(ks) - 1) : TextLess(ks[i], ks[i + 1])

\* Every dict inside o has keys of type str.
RECURSIVE StrKeyed(_)
StrKeyed(o) ==
    CASE Type(o) = "dict" ->
            \A i \in 1..Len(Val(o)) : Type(Val(o)[i][1]) = "str" /\ StrKeyed(Val(o)[i][2])
      [] Type(o) \in {"list", "tuple"} -> \A i \in 1..Len(Val(o)) : StrKeyed(Val(o)[i])
      [] OTHER -> TRUE

\* a and b are equal up to the order of the elements of their lists.
RECURSIVE SameUpToListOrder(_, _)
SameUpToListOrder(u, v) ==
    /\ Type(u) = Type(v)
    /\ CASE Type(u) = "dict" ->
              /\ Keys(Val(u)) = Keys(Val(v))
              /\ \A k \in Keys(Val(u)) : SameUpToListOrder(Get(Val(u), k), Get(Val(v), k))
         [] Type(u) = "list" ->
              /\ Len(Val(u)) = Len(Val(v))
              /\ \A e \in {Val(u)[i] : i \in 1..Len(Val(u))} :
                    Cardinality({i \in 1..Len(Val(u)) : Val(u)[i] = e})
                        = Cardinality({i \in 1..Len(Val(v)) : Val(v)[i] = e})
         [] OTHER -> PyEq(u, v)

BothCanonicalized == outA.exc # "notrun" /\ outB.exc # "notrun"
BothReturned == outA.exc = "none" /\ outB.exc = "none"

\* envB is envA with another value assigned to sig, and nothing else done.
OnlySigAssigned == envB = SetAttr(envA, SigKey, Get(envB, SigKey))

\* C1: two envelopes that agree on every field except sig have the same
\* canonical form (or raise the same error), whatever the two sig values are,
\* and no top-level key of the canonical form is "sig".
C1_SignatureExclusion ==
    /\ (BothCanonicalized /\ OnlySigAssigned) => outA = outB
    /\ outA.exc = "none" =>
          LET written == KeysAtDepth(outA.s, 1)
          IN  \A i \in 1..Len(written) : written[i] # Val(SigKey)

C1_Witness ==
    /\ BothReturned /\ OnlySigAssigned
    /\ Get(envA, SigKey) # Get(envB, SigKey)
    /\ Get(envA, SigKey) = StrV(<<>>)
    /\ outA = outB

\* C8: two envelopes that differ in a field other than sig have different
\* canonical forms.
C8_CollisionFree ==
    (BothReturned /\ ~SameButSig(envA, envB)) => outA.s # outB.s

\* C9: the canonical form does not depend on the insertion order of the keys,
\* of the envelope or of any dict nested in its payload; the keys of every
\* object are written in sorted order (text keys: by code point); and lists
\* that differ in the order of their elements are written differently.
C9_OrderIndependent ==
    /\ (BothCanonicalized /\ PyEq(DictV(envA), DictV(envB))) => outA = outB
    /\ (outA.exc = "none" /\ StrKeyed(DictV(envA))) =>
            \A d \in 1..3 : StrictlySorted(KeysAtDepth(outA.s, d))
    /\ (BothReturned /\ SameUpToListOrder(DictV(envA), DictV(envB))
          /\ ~PyEq(DictV(envA), DictV(envB))) => outA # outB

C9_Witness ==
    /\ BothReturned
    /\ envA # envB /\ PyEq(DictV(envA), DictV(envB))
    /\ envB # Reinserted(envA)
    /\ Len(KeysAtDepth(outA.s, 3)) = 2
    /\ outA = outB

----------------------------------------------------------------------------
\* Identifier derivation

\* positions from the front of a key where a byte is varied (the last
\* position is always varied), and the longest byte string encoded directly
MaxPos == 1
MaxDataLen == 2

KeyBytes == {0, 1, 255}
DataBytes == {0, 1, 57, 58, 255}

Filled(n, f, p, v) == [i \in 1..n |-> IF i = p THEN v ELSE f]

PublicKeys ==
    {Filled(KeyLen, f, p, v) : f \in {0, 255}, p \in (1..MaxPos) \cup {KeyLen}, v \in KeyBytes}

\* byte strings of a wrong length
NotKeys == {Filled(n, f, 1, f) : n \in {0, 1, KeyLen - 1, KeyLen + 1}, f \in {0, 255}}

RECURSIVE BytesUpTo(_)
BytesUpTo(n) ==
    IF n = 0 THEN {<<>>}
    ELSE BytesUpTo(n - 1) \cup {Append(bs, c) : bs \in BytesUpTo(n - 1), c \in DataBytes}

InitDid ==
    /\ pkA \in PublicKeys \cup NotKeys
    /\ pkB \in PublicKeys \cup NotKeys
    /\ didA = NotRun /\ didB = NotRun
    /\ data = <<>> /\ enc = NotRun
    /\ envA = <<>> /\ envB = <<>> /\ outA = NotRun /\ outB = NotRun
    /\ env = <<>> /\ signing = NotRun /\ verdict = NotRun

DeriveA ==
    /\ didA' = did_from_public_key(pkA)
    /\ UNCHANGED <<envA, envB, outA, outB, env, signing, verdict, pkA, pkB, didB, data, enc>>

DeriveB ==
    /\ didB' = did_from_public_key(pkB)
    /\ UNCHANGED <<envA, envB, outA, outB, env, signing, verdict, pkA, pkB, didA, data, enc>>

NextDid == DeriveA \/ DeriveB

SpecDid == InitDid /\ [][NextDid]_vars

InitEnc ==
    /\ pkA \in PublicKeys \cup NotKeys
    /\ data \in BytesUpTo(MaxDataLen)
    /\ didA = NotRun /\ enc = NotRun
    /\ pkB = <<>> /\ didB = NotRun
    /\ envA = <<>> /\ envB = <<>> /\ outA = NotRun /\ outB = NotRun
    /\ env = <<>> /\ signing = NotRun /\ verdict = NotRun

Encode ==
    /\ enc' = Returned(_encode_base58btc(data))
    /\ UNCHANGED <<envA, envB, outA, outB, env, signing, verdict, pkA, pkB, didA, didB, data>>

NextEnc == DeriveA \/ Encode

SpecEnc == InitEnc /\ [][NextEnc]_vars

\* C6: a byte string whose length is not 32 is rejected with the
\* invalid-length error and yields no identifier; every 32-byte key yields
\* one.
C6_LengthValidation ==
    didA.exc # "notrun" =>
        /\ Len(pkA) # KeyLen => didA = Raised("ValueError")
        /\ Len(pkA) = KeyLen => didA.exc = "none" /\ didA.s # <<>>

C6_Witness ==
    /\ didA = Raised("ValueError") /\ Len(pkA) = KeyLen - 1
    /\ didB.exc = "none" /\ Len(pkB) = KeyLen

\* C7: two different 32-byte keys never derive the same identifier.
C7_Injective ==
    (didA.exc = "none" /\ didB.exc = "none" /\ pkA # pkB) => didA.s # didB.s

C7_Witness ==
    /\ didA.exc = "none" /\ didB.exc = "none"
    /\ pkA # pkB
    /\ SubSeq(pkA, 1, KeyLen - 1) = SubSeq(pkB, 1, KeyLen - 1)
    /\ didA.s # didB.s

----------------------------------------------------------------------------
\* The reference reading of base58btc text: its value as an int.

Base58Digit(c) == (CHOOSE i \in 1..Len(BASE58_ALPHABET) : BASE58_ALPHABET[i] = c) - 1

RECURSIVE MulAdd(_, _, _, _)
\* num * 58 + the carry, from the least significant digit (position i) up
MulAdd(num, i, carry, out) ==
    IF carry < 0 THEN out
    ELSE IF i = 0 THEN LStripZeros(<<carry>> \o out)
    ELSE LET cur == num[i] * Radix + carry
         IN  MulAdd(num, i - 1, cur \div 256, <<cur % 256>> \o out)

RECURSIVE Base58Value(_, _, _)
Base58Value(text, i, acc) ==
    IF Len(acc) > Len(text) \/ i > Len(text) THEN acc
    ELSE Base58Value(text, i + 1, MulAdd(acc, Len(acc), Base58Digit(text[i]), <<>>))

RECURSIVE LeadingCount(_, _)
LeadingCount(s, c) ==
    IF s # <<>> /\ Head(s) = c THEN 1 + LeadingCount(Tail(s), c) ELSE 0

\* text is the base58btc encoding of bs: one leading '1' per leading zero
\* byte, then the rest of bs as a big-endian int in base-58 digits, most
\* significant first.
IsBase58btcOf(text, bs) ==
    LET ones == LeadingCount(text, "1")
        rest == SubSeq(text, ones + 1, Len(text))
    IN  /\ \A i \in 1..Len(text) : \E j \in 1..Len(BASE58_ALPHABET) : text[i] = BASE58_ALPHABET[j]
        /\ ones = LeadingCount(bs, 0)
        /\ Base58Value(rest, 1, <<>>) = LStripZeros(bs)

DidPrefix == <<"d", "i", "d", ":", "k", "e", "y", ":", "z">>

\* C10: the identifier of a 32-byte key k is "did:key:z" followed by the
\* base58btc encoding of 0xED 0x01 || k, which never starts with '1'; the
\* encoder marks each leading zero byte of its input with one leading '1'.
C10_ReferenceEncoding ==
    /\ didA.exc = "none" =>
          /\ SubSeq(didA.s, 1, Len(DidPrefix)) = DidPrefix
          /\ IsBase58btcOf(SubSeq(didA.s, Len(DidPrefix) + 1, Len(didA.s)),
                           <<237, 1>> \o pkA)
          /\ didA.s[Len(DidPrefix) + 1] # "1"
    /\ enc.exc = "none" =>
          /\ Head(enc.s) = "z"
          /\ IsBase58btcOf(Tail(enc.s), data)

C10_Witness ==
    /\ didA.exc = "none" /\ pkA = Filled(KeyLen, 0, 1, 0)
    /\ enc.exc = "none" /\ data = <<0, 58>>
    /\ enc.s = <<"z", "1", "2", "1">>

----------------------------------------------------------------------------
\* Signing and verifying: an unsigned envelope is built, signed once, the
\* caller may assign to its fields, and one verification is called.

SignPayloads == {
    DictV(<< <<keyA, one>> >>),
    DictV(<< <<keyA, oneText>> >>),
    DictV(<< <<keyA, DictV(<< <<one, IntV(0)>> >>)>> >>),
    DictV(<< <<keyA, DictV(<< <<oneText, IntV(0)>> >>)>> >>),
    DictV(<< <<keyA, BytesV(<<120>>)>> >>) }

TtlValues == {IntV(1), IntV(10)}

FieldValues(k) ==
    CASE k = TtlKey -> TtlValues
      [] k = PayloadKey -> SignPayloads
      [] k = SigKey -> SigTexts

\* private_key arguments: the generated seeds and a 31-byte string
SeedArgs == Seeds \cup {[i \in 1..(SeedLen - 1) |-> 1]}

\* public_key arguments: the generated keys, a key nobody holds the seed of,
\* and a 31-byte string
PublicKeyArgs ==
    {kp[2] : kp \in generate_keypair}
        \cup {[i \in 1..KeyLen |-> 0], [i \in 1..(KeyLen - 1) |-> 0]}

\* signature arguments made from the text sg that sign_envelope returned
SignatureArgs(sg) ==
    { sg,
      <<"!">> \o sg,
      <<NonAscii>> \o sg,
      SubSeq(sg, 1, Len(sg) - 2),
      SubSeq(sg, 1, Len(sg) - 4),
      IF sg = <<>> THEN <<"A">> ELSE [sg EXCEPT ![1] = IF @ = "A" THEN "B" ELSE "A"],
      <<"A", "A", "=", "=">>,
      <<>> }

InitSign ==
    /\ env \in {Built(NoneV, ttl.int, StrV(<<>>), p) : ttl \in TtlValues, p \in SignPayloads}
    /\ signing = NotRun /\ verdict = NotRun
    /\ envA = <<>> /\ envB = <<>> /\ outA = NotRun /\ outB = NotRun
    /\ pkA = <<>> /\ pkB = <<>> /\ didA = NotRun /\ didB = NotRun
    /\ data = <<>> /\ enc = NotRun

Sign ==
    /\ signing.exc = "notrun" /\ verdict.exc = "notrun"
    /\ Get(env, SigKey) = StrV(<<>>)
    /\ \E seed \in SeedArgs :
          LET r == sign_envelope(env, seed)
          IN  signing' = [exc |-> r.exc, s |-> r.s, env |-> env, key |-> seed]
    /\ UNCHANGED <<envA, envB, outA, outB, env, verdict, pkA, pkB, didA, didB, data, enc>>

\* env.sig = sign_envelope(env, private_key)
AssignSig ==
    /\ signing.exc = "none" /\ verdict.exc = "notrun"
    /\ env' = SetAttr(env, SigKey, StrV(signing.s))
    /\ UNCHANGED <<envA, envB, outA, outB, signing, verdict, pkA, pkB, didA, didB, data, enc>>

\* setattr(env, k, v)
Mutate ==
    /\ verdict.exc = "notrun"
    /\ \E k \in {TtlKey, PayloadKey, SigKey} : \E v \in FieldValues(k) :
          env' = SetAttr(env, k, v)
    /\ UNCHANGED <<envA, envB, outA, outB, signing, verdict, pkA, pkB, didA, didB, data, enc>>

Verify ==
    /\ verdict.exc = "notrun"
    /\ \E sg \in SignatureArgs(IF signing.exc = "none" THEN signing.s ELSE <<>>) :
       \E pk \in PublicKeyArgs :
          LET r == verify_envelope_signature(env, sg, pk)
          IN  verdict' = [exc |-> r.exc, ret |-> r.ret, sig |-> sg, pub |-> pk]
    /\ UNCHANGED <<envA, envB, outA, outB, env, signing, pkA, pkB, didA, didB, data, enc>>

NextSign == Sign \/ AssignSig \/ Mutate \/ Verify

SpecSign == InitSign /\ [][NextSign]_vars

Verified == verdict.exc # "notrun"
\* the signature verified is the one sign_envelope returned
OwnSignature == signing.exc = "none" /\ verdict.sig = signing.s
\* the key verified against is the public half of the signing seed
OwnKey == verdict.pub = PublicKeyOf(signing.key)
\* nothing but sig was assigned since the envelope was signed
Untampered == env = SetAttr(signing.env, SigKey, Get(env, SigKey))

\* C2: the signature sign_envelope returned verifies against the same
\* envelope and the matching public key, whatever was assigned to sig in
\* between.
C2_RoundTrip ==
    (Verified /\ OwnSignature /\ OwnKey /\ Untampered) =>
        verdict.exc = "none" /\ verdict.ret

C2_Witness ==
    /\ Verified /\ OwnSignature /\ OwnKey /\ Untampered
    /\ Get(env, SigKey) = StrV(signing.s)
    /\ verdict.ret

\* C3: once a field other than sig differs from the signed envelope, the
\* signature no longer verifies.
C3_TamperDetection ==
    (Verified /\ OwnSignature /\ OwnKey /\ ~SameButSig(env, signing.env)) =>
        verdict.exc = "none" /\ ~verdict.ret

\* base64 as RFC 4648 writes it: groups of four characters of the alphabet,
\* with at most two '=' and only at the end.
WellFormedBase64(s) ==
    /\ Len(s) % 4 = 0
    /\ \A i \in 1..Len(s) :
          \/ s[i] \in B64Chars
          \/ s[i] = "=" /\ i > Len(s) - 2 /\ (i = Len(s) \/ s[i + 1] = "=")

\* C4: verification never raises, and it returns False whenever the
\* signature is malformed base64 or does not decode to 64 bytes, the public
\* key is not 32 bytes, or the Ed25519 check fails.
C4_FailsClosed ==
    Verified =>
        /\ verdict.exc = "none"
        /\ LET sig == b64decode(verdict.sig)
               msg == canonicalize_envelope(env)
           IN  ( \/ ~WellFormedBase64(verdict.sig)
                 \/ sig.exc # "none"
                 \/ Len(sig.s) # SignatureLen
                 \/ Len(verdict.pub) # KeyLen
                 \/ msg.exc # "none"
                 \/ Ed25519Verify(verdict.pub, Utf8(msg.s), sig.s) # "none" )
               => ~verdict.ret

\* C5: a signature made with one keypair does not verify against the public
\* key of another keypair, and the call does not raise.
C5_WrongKeyRejected ==
    (/\ Verified /\ OwnSignature
     /\ verdict.pub \in {kp[2] : kp \in generate_keypair}
     /\ ~OwnKey) =>
        verdict.exc = "none" /\ ~verdict.ret

C5_Witness ==
    /\ Verified /\ OwnSignature /\ Untampered
    /\ verdict.pub \in {kp[2] : kp \in generate_keypair}
    /\ ~OwnKey
    /\ verdict.exc = "none" /\ ~verdict.ret

====
